---- MODULE Spec2Model ----
(***************************************************************************)
(* A model of pyecospold's core module (src/pyecospold/core.py): the two   *)
(* element class lookups, parse_file / validate_file / parse_directory and *)
(* their fixed-version wrappers, and save_file; and of the typed field     *)
(* accessors exercised by src/tests/test_helpers.py.                       *)
(***************************************************************************)
EXTENDS Integers, Sequences, FiniteSets, TLC

VARIABLES
    parser,      \* the lookup object installed on the parser of a parse in progress
    resolved,    \* the elements resolved so far by that parser: <<[name, out]>>
    cells,       \* a typed node's raw-text cells: field name -> [present, text]
    lastSet,     \* per field, the value of the latest set of it (NoValue: none yet)
    access,      \* the latest accessor call on the node and its outcome
    dir,         \* a directory: its entries [name, kind, file] in enumeration order
    ret,         \* the latest call of a core.py operation: its arguments and outcome
    source,      \* the document a round trip starts from
    held,        \* the tree the caller holds (from parse_file), if any
    first,       \* that tree as parse_file returned it
    saved        \* the file save_file wrote from the held tree, if any

lookupVars == <<parser, resolved>>

fieldVars == <<cells, lastSet, access>>

coreVars == <<dir, ret>>

tripVars == <<source, held, first, saved>>

vars == <<parser, resolved, cells, lastSet, access, dir, ret, source, held, first, saved>>

(***************************************************************************)
(* Bounds of the model.                                                    *)
(***************************************************************************)
MaxNodes == 2

\* Floats are fixed-point tenths in -MaxTenths..MaxTenths, ints are -MaxInt..MaxInt.
MaxTenths == 25

MaxInt == 3

\* The entries of a directory, and the items of a dataset element's content.
MaxEntries == 2

MaxContent == 3

(***************************************************************************)
(* Python values used across the model.                                    *)
(***************************************************************************)
\* A class object, named by the module it is imported from (core.py:9-42).
Cls(module, name) == [module |-> module, name |-> name]

None == [module |-> "builtins", name |-> "None"]

Returned(v) == [raised |-> FALSE, value |-> v]

Raised(e) == [raised |-> TRUE, error |-> e]

(***************************************************************************)
(* The element class catalogs.                                             *)
(***************************************************************************)
lookupmapV1 ==
    [ administrativeInformation   |-> Cls("model_v1", "AdministrativeInformation"),
      allocation                  |-> Cls("model_v1", "Allocation"),
      dataEntryBy                 |-> Cls("model_v1", "DataEntryBy"),
      dataGeneratorAndPublication |-> Cls("model_v1", "DataGeneratorAndPublication"),
      dataset                     |-> Cls("model_v1", "Dataset"),
      dataSetInformation          |-> Cls("model_v1", "DataSetInformation"),
      ecoSpold                    |-> Cls("model_v1", "EcoSpold"),
      exchange                    |-> Cls("model_v1", "Exchange"),
      flowData                    |-> Cls("model_v1", "FlowData"),
      geography                   |-> Cls("model_v1", "Geography"),
      metaInformation             |-> Cls("model_v1", "MetaInformation"),
      modellingAndValidation      |-> Cls("model_v1", "ModellingAndValidation"),
      person                      |-> Cls("model_v1", "Person"),
      processInformation          |-> Cls("model_v1", "ProcessInformation"),
      referenceFunction           |-> Cls("model_v1", "ReferenceFunction"),
      representativeness          |-> Cls("model_v1", "Representativeness"),
      source                      |-> Cls("model_v1", "Source"),
      technology                  |-> Cls("model_v1", "Technology"),
      timePeriod                  |-> Cls("model_v1", "TimePeriod"),
      validation                  |-> Cls("model_v1", "Validation") ]

lookupmapV2 ==
    [ activity                    |-> Cls("model_v2", "Activity"),
      activityDataset             |-> Cls("model_v2", "ActivityDataset"),
      activityDescription         |-> Cls("model_v2", "ActivityDescription"),
      administrativeInformation   |-> Cls("model_v2", "AdministrativeInformation"),
      allocationComment           |-> Cls("model_v2", "Comment"),
      childActivityDataset        |-> Cls("model_v2", "ActivityDataset"),
      classification              |-> Cls("model_v2", "Classification"),
      comment                     |-> Cls("model_v2", "Comment"),
      dataEntryBy                 |-> Cls("model_v2", "DataEntryBy"),
      dataGeneratorAndPublication |-> Cls("model_v2", "DataGeneratorAndPublication"),
      ecoSpold                    |-> Cls("model_v2", "EcoSpold"),
      elementaryExchange          |-> Cls("model_v2", "ElementaryExchange"),
      fileAttributes              |-> Cls("model_v2", "FileAttributes"),
      flowData                    |-> Cls("model_v2", "FlowData"),
      generalComment              |-> Cls("model_v2", "Comment"),
      geography                   |-> Cls("model_v2", "Geography"),
      impactIndicator             |-> Cls("model_v2", "ImpactIndicator"),
      intermediateExchange        |-> Cls("model_v2", "IntermediateExchange"),
      macroEconomicScenario       |-> Cls("model_v2", "MacroEconomicScenario"),
      modellingAndValidation      |-> Cls("model_v2", "ModellingAndValidation"),
      parameter                   |-> Cls("model_v2", "Parameter"),
      property                    |-> Cls("model_v2", "Property"),
      representativeness          |-> Cls("model_v2", "Representativeness"),
      review                      |-> Cls("model_v2", "Review"),
      technology                  |-> Cls("model_v2", "Technology"),
      timePeriod                  |-> Cls("model_v2", "TimePeriod"),
      transferCoefficient         |-> Cls("model_v2", "TransferCoefficient"),
      uncertainty                 |-> Cls("model_v2", "Uncertainty") ]

\* Tag names the XML engine may hand to a lookup: every key of either catalog and
\* some names that are keys of neither.
OtherTags == {"unknownTag", "Geography", ""}

TagNames == DOMAIN lookupmapV1 \cup DOMAIN lookupmapV2 \cup OtherTags

(***************************************************************************)
(* EcospoldLookupV1.lookup and EcospoldLookupV2.lookup: lookupmap[name],   *)
(* with KeyError caught and turned into None.                              *)
(***************************************************************************)
\* lookupmap[name]: the mapped class, or KeyError.
GetItem(lookupmap, name) ==
    IF name \in DOMAIN lookupmap THEN Returned(lookupmap[name]) ELSE Raised("KeyError")

\* try: return lookupmap[name] / except KeyError: return None
TryLookup(lookupmap, name) ==
    LET r == GetItem(lookupmap, name)
    IN  IF r.raised /\ r.error = "KeyError" THEN Returned(None) ELSE r

\* Mutant: the V1 lookup without its try/except, so a missing key raises KeyError.
EcospoldLookupV1_lookup_NoExcept(name) == GetItem(lookupmapV1, name)

\* Mutant: the V1 lookup searching the V2 catalog for the names its own lacks.
EcospoldLookupV1_lookup_FallsToV2(name) ==
    IF name \in DOMAIN lookupmapV1
    THEN Returned(lookupmapV1[name])
    ELSE TryLookup(lookupmapV2, name)

EcospoldLookupV1_lookup(name) == TryLookup(lookupmapV1, name)

EcospoldLookupV2_lookup(name) == TryLookup(lookupmapV2, name)

\* The lookup objects the callers construct: EcospoldLookupV1(), EcospoldLookupV2().
Lookups == {"EcospoldLookupV1", "EcospoldLookupV2"}

\* The XML engine's call ecospold_lookup.lookup(node_type, document, namespace, name).
lookup(ecospold_lookup, name) ==
    IF ecospold_lookup = "EcospoldLookupV1"
    THEN EcospoldLookupV1_lookup(name)
    ELSE EcospoldLookupV2_lookup(name)

(***************************************************************************)
(* Typed Element: typed get/set of a field over its raw-text cell          *)
(* (spec section 4.1; exercised by tests/test_helpers.py).                 *)
(***************************************************************************)
\* Python values: a float (in tenths), an int, or a str (a sequence of characters).
PyFloat(t) == [type |-> "float", num |-> t, text |-> <<>>]

PyInt(n) == [type |-> "int", num |-> n, text |-> <<>>]

PyStr(s) == [type |-> "str", num |-> 0, text |-> s]

NoValue == [type |-> "none", num |-> 0, text |-> <<>>]

Digits == <<"0", "1", "2", "3", "4", "5", "6", "7", "8", "9">>

IsDigit(c) == \E d \in 1..10 : Digits[d] = c

DigitVal(c) == (CHOOSE d \in 1..10 : Digits[d] = c) - 1

Abs(n) == IF n < 0 THEN -n ELSE n

\* The decimal digits of a natural number.
RECURSIVE FormatNat(_)
FormatNat(n) ==
    IF n < 10 THEN <<Digits[n + 1]>> ELSE Append(FormatNat(n \div 10), Digits[(n % 10) + 1])

Sign(n) == IF n < 0 THEN <<"-">> ELSE <<>>

\* str(x) of an int and of a float with one fractional digit: "2", "-1", "2.0", "-0.5".
FormatInt(n) == Sign(n) \o FormatNat(Abs(n))

FormatFloat(t) ==
    Sign(t) \o FormatNat(Abs(t) \div 10) \o <<".">> \o <<Digits[(Abs(t) % 10) + 1]>>

\* str(value): the canonical text the setter stores.
Str(value) ==
    CASE value.type = "float" -> FormatFloat(value.num)
      [] value.type = "int"   -> FormatInt(value.num)
      [] OTHER                -> value.text

\* The value of a sequence of digits.
RECURSIVE NatOf(_)
NatOf(ds) ==
    IF ds = <<>> THEN 0 ELSE 10 * NatOf(SubSeq(ds, 1, Len(ds) - 1)) + DigitVal(ds[Len(ds)])

AllDigits(ds) == \A i \in 1..Len(ds) : IsDigit(ds[i])

Unsigned(text) ==
    IF text # <<>> /\ text[1] = "-" THEN SubSeq(text, 2, Len(text)) ELSE text

Negate(text, n) == IF text # <<>> /\ text[1] = "-" THEN -n ELSE n

\* int(text): an optional sign and one or more digits, ValueError otherwise.
ParseInt(text) ==
    LET u == Unsigned(text)
    IN  IF u # <<>> /\ AllDigits(u)
        THEN Returned(PyInt(Negate(text, NatOf(u))))
        ELSE Raised("ValueError")

\* float(text): an optional sign, digits, and optionally a point and digits, with a
\* digit on one side of the point at least; ValueError otherwise. The texts of this
\* model carry one fractional digit at most.
ParseFloat(text) ==
    LET u == Unsigned(text)
        dots == {i \in 1..Len(u) : u[i] = "."}
        dot == IF dots = {} THEN Len(u) + 1 ELSE CHOOSE i \in dots : TRUE
        whole == SubSeq(u, 1, dot - 1)
        frac == SubSeq(u, dot + 1, Len(u))
    IN  IF /\ Cardinality(dots) <= 1
           /\ AllDigits(whole) /\ AllDigits(frac)
           /\ Len(whole) + Len(frac) > 0
           /\ Len(frac) <= 1
        THEN Returned(PyFloat(Negate(text, 10 * NatOf(whole) + NatOf(frac))))
        ELSE Raised("ValueError")

\* The declared fields of the node: type and default.
Fields == {"amount", "number"}

FieldType(name) == IF name = "amount" THEN "float" ELSE "int"

FieldDefault(name) == IF name = "amount" THEN PyFloat(10) ELSE PyInt(0)

\* The declared type's parser applied to a raw text.
Coerce(type, text) == IF type = "float" THEN ParseFloat(text) ELSE ParseInt(text)

Absent == [present |-> FALSE, text |-> <<>>]

Stored(text) == [present |-> TRUE, text |-> text]

\* Mutant: a getter that lets the parser's ValueError through.
get_Strict(node, name) ==
    IF ~node[name].present
    THEN Returned(FieldDefault(name))
    ELSE Coerce(FieldType(name), node[name].text)

\* get(name): the default when the cell is absent or its text does not parse as the
\* declared type, the parsed value otherwise. Never raises.
get(node, name) ==
    IF ~node[name].present
    THEN Returned(FieldDefault(name))
    ELSE LET r == Coerce(FieldType(name), node[name].text)
         IN  IF r.raised THEN Returned(FieldDefault(name)) ELSE r

\* Mutant: a setter that formats every number as an int, dropping the fraction.
set_Truncating(node, name, value) ==
    [node EXCEPT ![name] =
        Stored(IF value.type = "float"
               THEN Sign(value.num) \o FormatNat(Abs(value.num) \div 10)
               ELSE Str(value))]

\* set(name, value): stores str(value) in the one cell, whatever the value.
set(node, name, value) == [node EXCEPT ![name] = Stored(Str(value))]

\* The values callers assign.
StrValues ==
    { <<"a", "b", "c">>, <<>>, <<"-">>, <<".">>, <<"1", ".", "2", ".", "3">>,
      <<"2", ".", "0">>, <<"7">> }

Values ==
    {PyFloat(t) : t \in -MaxTenths..MaxTenths}
        \cup {PyInt(n) : n \in -MaxInt..MaxInt}
        \cup {PyStr(s) : s \in StrValues}

\* The raw texts a parsed document may hold in a cell.
ParsedCells == {Absent, Stored(<<"1">>)}

Nothing == [some |-> FALSE]

Some(v) == [some |-> TRUE, v |-> v]

NoCall == [op |-> "none"]

IdleCore ==
    /\ dir = <<>>
    /\ ret = NoCall

IdleTrip ==
    /\ source = [kind |-> "none"]
    /\ held = Nothing
    /\ first = Nothing
    /\ saved = Nothing

IdleLookup ==
    /\ parser = "EcospoldLookupV1"
    /\ resolved = <<>>

IdleField ==
    /\ cells = [f \in Fields |-> Absent]
    /\ lastSet = [f \in Fields |-> NoValue]
    /\ access = [op |-> "none", name |-> "", out |-> Returned(None)]

InitField ==
    /\ cells \in [Fields -> ParsedCells]
    /\ lastSet = [f \in Fields |-> NoValue]
    /\ access = [op |-> "none", name |-> "", out |-> Returned(None)]
    /\ IdleLookup
    /\ IdleCore
    /\ IdleTrip

Set(name, value) ==
    /\ cells' = set(cells, name, value)
    /\ lastSet' = [lastSet EXCEPT ![name] = value]
    /\ access' = [op |-> "set", name |-> name, out |-> Returned(None)]
    /\ UNCHANGED <<lookupVars, coreVars, tripVars>>

Get(name) ==
    /\ access' = [op |-> "get", name |-> name, out |-> get(cells, name)]
    /\ UNCHANGED <<cells, lastSet, lookupVars, coreVars, tripVars>>

NextField ==
    \/ \E name \in Fields, value \in Values : Set(name, value)
    \/ \E name \in Fields : Get(name)

SpecField == InitField /\ [][NextField]_vars

(***************************************************************************)
(* Claims about the typed accessors.                                       *)
(***************************************************************************)
\* A value the field's declared type cannot be parsed from.
Unparseable(name, value) == Coerce(FieldType(name), Str(value)).raised

\* C2: once a field was set to a value that cannot be parsed as its declared type,
\* the set has completed without raising and every get of the field returns the
\* declared default (1.0 for amount): not the invalid value, not an exception.
C2_InvalidSetReadsDefault ==
    /\ access.op = "set" => ~access.out.raised
    /\ \A f \in Fields :
        (lastSet[f] # NoValue /\ Unparseable(f, lastSet[f])) =>
            /\ get(cells, f) = Returned(FieldDefault(f))
            /\ (access.op = "get" /\ access.name = f) =>
                   access.out = Returned(FieldDefault(f))

\* C2 witness: amount was set to "abc" and then read as 1.0.
C2_Witness ==
    /\ lastSet["amount"] = PyStr(<<"a", "b", "c">>)
    /\ access = [op |-> "get", name |-> "amount", out |-> Returned(PyFloat(10))]

\* C3: once a numeric field was set to a value x of its own type, every get of it
\* (until the next set of it) returns x.
C3_ValidSetRoundTrips ==
    \A f \in Fields :
        lastSet[f].type = FieldType(f) =>
            /\ get(cells, f) = Returned(lastSet[f])
            /\ (access.op = "get" /\ access.name = f) => access.out = Returned(lastSet[f])

\* C3 witness: amount was set to 2.0, stored as the text "2.0", and read as 2.0.
C3_Witness ==
    /\ lastSet["amount"] = PyFloat(20)
    /\ cells["amount"] = Stored(<<"2", ".", "0">>)
    /\ access = [op |-> "get", name |-> "amount", out |-> Returned(PyFloat(20))]

(***************************************************************************)
(* The XML engine as core.py configures it. A document's content is an     *)
(* element [tag, attrib, content]; content is a sequence of items, each a  *)
(* run of character data or a child element. A parsed (typed) element also *)
(* holds cls, the class its proxy was created with.                        *)
(***************************************************************************)
Text(t) == [kind |-> "text", text |-> t]

Elem(e) == [kind |-> "elem", elem |-> e]

Element(tag, attrib, content) == [tag |-> tag, attrib |-> attrib, content |-> content]

NoAttrib == [f \in Fields |-> Absent]

\* Whitespace-only character data; "\n", "\n  ", ... are a pretty-printer's indents.
IndentText == <<"\n", "\n  ", "\n    ", "\n      ">>

BlankTexts == {" "} \cup {IndentText[i] : i \in DOMAIN IndentText}

IsBlank(t) == t \in BlankTexts

HasTextChild(content) == \E i \in DOMAIN content : content[i].kind = "text"

\* The parser's decision to drop a whitespace-only run met after the children kept
\* so far (remove_blank_text): a run that is an element's whole content is kept,
\* and so is one after a text node or in an element whose first child is text.
areBlanks(children, nextIsEndTag) ==
    IF children = <<>>
    THEN ~nextIsEndTag
    ELSE /\ children[Len(children)].kind # "text"
         /\ children[1].kind # "text"

\* The tree the parser builds from an element: the class of each node comes from
\* the installed lookup (None: the generic node class).
RECURSIVE BuildElement(_, _, _)
RECURSIVE BuildContent(_, _, _, _, _)
BuildElement(el, ecospold_lookup, remove_blank_text) ==
    [ tag     |-> el.tag,
      cls     |-> lookup(ecospold_lookup, el.tag).value,
      attrib  |-> el.attrib,
      content |-> BuildContent(el.content, 1, <<>>, ecospold_lookup, remove_blank_text) ]

BuildContent(items, i, children, ecospold_lookup, remove_blank_text) ==
    IF i > Len(items)
    THEN children
    ELSE LET it == items[i]
             next ==
                 IF it.kind = "elem"
                 THEN Append(children,
                             Elem(BuildElement(it.elem, ecospold_lookup, remove_blank_text)))
                 ELSE IF /\ remove_blank_text
                         /\ IsBlank(it.text)
                         /\ areBlanks(children, i = Len(items))
                      THEN children
                      ELSE Append(children, it)
         IN  BuildContent(items, i + 1, next, ecospold_lookup, remove_blank_text)

\* The serializer (tree.write): the element as written, classes gone. With
\* pretty_print an element none of whose children is text gets each child and its
\* end tag on an indented line of their own; below an element with a text child
\* nothing is indented.
RECURSIVE WriteElement(_, _, _)
RECURSIVE WriteContent(_, _, _, _)
WriteElement(el, format, level) ==
    LET fmt == format /\ ~HasTextChild(el.content)
    IN  Element(el.tag, el.attrib,
                IF el.content = <<>> THEN <<>> ELSE WriteContent(el.content, 1, fmt, level))

WriteContent(content, i, fmt, level) ==
    IF i > Len(content)
    THEN IF fmt THEN <<Text(IndentText[level + 1])>> ELSE <<>>
    ELSE (IF fmt THEN <<Text(IndentText[level + 2])>> ELSE <<>>)
         \o <<IF content[i].kind = "elem"
              THEN Elem(WriteElement(content[i].elem, fmt, level + 1))
              ELSE content[i]>>
         \o WriteContent(content, i + 1, fmt, level)

(***************************************************************************)
(* Files and schemas.                                                      *)
(***************************************************************************)
\* What a path (or StringIO) holds: a well-formed document, text that is not
\* well-formed XML, or nothing readable.
XmlFile(root) == [kind |-> "xml", root |-> root]

GarbageFile == [kind |-> "garbage", root |-> Element("", NoAttrib, <<>>)]

MissingFile == [kind |-> "missing", root |-> Element("", NoAttrib, <<>>)]

\* Defaults.SCHEMA_V1_FILE and Defaults.SCHEMA_V2_FILE.
SCHEMA_V1_FILE == "SCHEMA_V1_FILE"

SCHEMA_V2_FILE == "SCHEMA_V2_FILE"

Schemas == {SCHEMA_V1_FILE, SCHEMA_V2_FILE}

\* The element a schema expects below the root ecoSpold.
DatasetTags(schema_path) ==
    IF schema_path = SCHEMA_V1_FILE THEN {"dataset"} ELSE {"activityDataset", "childActivityDataset"}

\* A stand-in for the XSD's verdict on a document, in document order: the root is
\* ecoSpold, its content is elements only (whitespace aside), each a dataset element
\* of the schema's version, and there is one at least.
RECURSIVE ContentErrors(_, _, _)
ContentErrors(schema_path, content, i) ==
    IF i > Len(content)
    THEN <<>>
    ELSE (IF content[i].kind = "text"
          THEN IF IsBlank(content[i].text)
               THEN <<>>
               ELSE <<"Character content other than whitespace is not allowed">>
          ELSE IF content[i].elem.tag \in DatasetTags(schema_path)
               THEN <<>>
               ELSE <<"This element is not expected">>)
         \o ContentErrors(schema_path, content, i + 1)

XMLSchema_validate(schema_path, root) ==
    IF root.tag # "ecoSpold"
    THEN <<"No matching global declaration available for the validation root">>
    ELSE ContentErrors(schema_path, root.content, 1)
         \o (IF \E i \in DOMAIN root.content : root.content[i].kind = "elem"
             THEN <<>>
             ELSE <<"Missing child element(s)">>)

(***************************************************************************)
(* The operations of core.py. An outcome is what the call returned or      *)
(* raised, with the parse_file calls made on the way.                      *)
(***************************************************************************)
Ok(v, calls) == [raised |-> FALSE, value |-> v, calls |-> calls]

Err(e, calls) == [raised |-> TRUE, error |-> e, calls |-> calls]

Exception(type, msg) == [type |-> type, msg |-> msg]

ParseCall(schema_path, ecospold_lookup) ==
    [schema_path |-> schema_path, ecospold_lookup |-> ecospold_lookup]

\* objectify.parse(file, parser), the parser made with `remove_blank_text` and a
\* schema: OSError for an unreadable file, XMLSyntaxError for a malformed one and for
\* one the schema rejects (with the first diagnostic), the typed root otherwise.
objectify_parse(file, schema_path, ecospold_lookup, remove_blank_text) ==
    LET calls == {ParseCall(schema_path, ecospold_lookup)}
        root == BuildElement(file.root, ecospold_lookup, remove_blank_text)
        errors == XMLSchema_validate(schema_path, root)
    IN  CASE file.kind = "missing" -> Err(Exception("OSError", "Error reading file"), calls)
          [] file.kind = "garbage" -> Err(Exception("XMLSyntaxError", "not well-formed"), calls)
          [] OTHER ->
                IF errors # <<>>
                THEN Err(Exception("XMLSyntaxError", errors[1]), calls)
                ELSE Ok(root, calls)

\* Mutant: parse_file with a plain etree.XMLParser, which keeps blank text.
parse_file_KeepsBlankText(file, schema_path, ecospold_lookup) ==
    objectify_parse(file, schema_path, ecospold_lookup, FALSE)

\* parse_file: objectify.makeparser(schema=schema) removes blank text by default.
parse_file(file, schema_path, ecospold_lookup) ==
    objectify_parse(file, schema_path, ecospold_lookup, TRUE)

\* Mutant: parse_file_v1 built with the V2 lookup.
parse_file_v1_WrongLookup(file) == parse_file(file, SCHEMA_V1_FILE, "EcospoldLookupV2")

parse_file_v1(file) == parse_file(file, SCHEMA_V1_FILE, "EcospoldLookupV1")

parse_file_v2(file) == parse_file(file, SCHEMA_V2_FILE, "EcospoldLookupV2")

\* What validate_file returns: None, or the schema's error log.
NoErrors == [kind |-> "None", items |-> <<>>]

ErrorLog(items) == [kind |-> "error_log", items |-> items]

\* Mutant: validate_file raising for an invalid document (schema.assertValid).
validate_file_Asserting(file, schema_path) ==
    LET errors == XMLSchema_validate(schema_path, file.root)
    IN  CASE file.kind = "missing" -> Err(Exception("OSError", "Error reading file"), {})
          [] file.kind = "garbage" -> Err(Exception("XMLSyntaxError", "not well-formed"), {})
          [] OTHER ->
                IF errors # <<>>
                THEN Err(Exception("DocumentInvalid", errors[1]), {})
                ELSE Ok(NoErrors, {})

\* validate_file: etree.parse(file) with the default parser (no schema, no lookup,
\* blank text kept), then schema.validate(doc).
validate_file(file, schema_path) ==
    LET errors == XMLSchema_validate(schema_path, file.root)
    IN  CASE file.kind = "missing" -> Err(Exception("OSError", "Error reading file"), {})
          [] file.kind = "garbage" -> Err(Exception("XMLSyntaxError", "not well-formed"), {})
          [] OTHER ->
                IF errors # <<>> THEN Ok(ErrorLog(errors), {}) ELSE Ok(NoErrors, {})

validate_file_v1(file) == validate_file(file, SCHEMA_V1_FILE)

validate_file_v2(file) == validate_file(file, SCHEMA_V2_FILE)

(***************************************************************************)
(* parse_directory.                                                        *)
(***************************************************************************)
\* str.lower() over the letters file suffixes are written with.
UpperLetters == <<"X", "M", "L", "S", "P", "O", "D", "T">>

LowerLetters == <<"x", "m", "l", "s", "p", "o", "d", "t">>

LowerChar(c) ==
    IF \E k \in DOMAIN UpperLetters : UpperLetters[k] = c
    THEN LowerLetters[CHOOSE k \in DOMAIN UpperLetters : UpperLetters[k] = c]
    ELSE c

Lower(str) == [k \in DOMAIN str |-> LowerChar(str[k])]

\* Path.suffix: the name from its last dot on, unless that dot starts or ends it.
PathSuffix(name) ==
    LET dots == {k \in DOMAIN name : name[k] = "."}
        last == IF dots = {} THEN 0 ELSE CHOOSE k \in dots : \A j \in dots : j <= k
    IN  IF 1 < last /\ last < Len(name) THEN SubSeq(name, last, Len(name)) ELSE <<>>

\* The valid_suffixes argument: None or a list.
NoneArg == [kind |-> "None", items |-> <<>>]

List(items) == [kind |-> "list", items |-> items]

In(x, list) == \E k \in DOMAIN list : list[k] = x

DefaultSuffixes == << <<".", "x", "m", "l">>, <<".", "s", "p", "o", "l", "d">> >>

\* if valid_suffixes is None: valid_suffixes = [".xml", ".spold"]
AllowList(valid_suffixes) ==
    IF valid_suffixes.kind = "None" THEN DefaultSuffixes ELSE valid_suffixes.items

\* The filter of the comprehension: file_path.is_file() and
\* file_path.suffix.lower() in valid_suffixes.
Selected(entry, valid_suffixes) ==
    /\ entry.kind = "file"
    /\ In(Lower(PathSuffix(entry.name)), valid_suffixes)

\* Mutant: a comprehension that leaves out the files that fail to parse.
RECURSIVE ParseEntries_SkipsFailures(_, _, _, _, _, _, _)
ParseEntries_SkipsFailures(entries, i, acc, calls, schema_path, ecospold_lookup, valid_suffixes) ==
    IF i > Len(entries)
    THEN Ok(acc, calls)
    ELSE IF ~Selected(entries[i], valid_suffixes)
         THEN ParseEntries_SkipsFailures(entries, i + 1, acc, calls, schema_path,
                                         ecospold_lookup, valid_suffixes)
         ELSE LET r == parse_file(entries[i].file, schema_path, ecospold_lookup)
              IN  ParseEntries_SkipsFailures(
                      entries, i + 1,
                      IF r.raised
                      THEN acc
                      ELSE Append(acc, [path |-> entries[i].name, root |-> r.value]),
                      calls \cup r.calls, schema_path, ecospold_lookup, valid_suffixes)

\* The list comprehension over dir_path.iterdir(), in enumeration order: the first
\* parse_file that raises ends it, and the exception leaves parse_directory.
RECURSIVE ParseEntries(_, _, _, _, _, _, _)
ParseEntries(entries, i, acc, calls, schema_path, ecospold_lookup, valid_suffixes) ==
    IF i > Len(entries)
    THEN Ok(acc, calls)
    ELSE IF ~Selected(entries[i], valid_suffixes)
         THEN ParseEntries(entries, i + 1, acc, calls, schema_path, ecospold_lookup,
                           valid_suffixes)
         ELSE LET r == parse_file(entries[i].file, schema_path, ecospold_lookup)
              IN  IF r.raised
                  THEN Err(r.error, calls \cup r.calls)
                  ELSE ParseEntries(entries, i + 1,
                                    Append(acc, [path |-> entries[i].name, root |-> r.value]),
                                    calls \cup r.calls, schema_path, ecospold_lookup,
                                    valid_suffixes)

parse_directory(dir_path, schema_path, ecospold_lookup, valid_suffixes) ==
    ParseEntries(dir_path, 1, <<>>, {}, schema_path, ecospold_lookup,
                 AllowList(valid_suffixes))

parse_directory_v1(dir_path, valid_suffixes) ==
    parse_directory(dir_path, SCHEMA_V1_FILE, "EcospoldLookupV1", valid_suffixes)

parse_directory_v2(dir_path, valid_suffixes) ==
    parse_directory(dir_path, SCHEMA_V2_FILE, "EcospoldLookupV2", valid_suffixes)

(***************************************************************************)
(* save_file.                                                              *)
(***************************************************************************)
\* Mutant: save_file indenting the tree in place (etree.indent) before writing it.
save_file_IndentsInPlace(root, path) ==
    LET written == WriteElement(root, TRUE, 0)
    IN  [ root |-> BuildElement(written, "EcospoldLookupV1", FALSE),
          path |-> path,
          file |-> XmlFile(written) ]

\* save_file: etree.ElementTree(root).write(path, pretty_print=True, ...). Gives the
\* tree as the call leaves it and the file at path.
save_file(root, path) ==
    [root |-> root, path |-> path, file |-> XmlFile(WriteElement(root, TRUE, 0))]

(***************************************************************************)
(* A parse in progress: the engine resolves the class of each element it   *)
(* meets through the lookup installed on the parser.                       *)
(***************************************************************************)
InitLookup ==
    /\ parser \in Lookups
    /\ resolved = <<>>
    /\ IdleField
    /\ IdleCore
    /\ IdleTrip

ResolveElement(name) ==
    /\ Len(resolved) < MaxNodes
    /\ resolved' = Append(resolved, [name |-> name, out |-> lookup(parser, name)])
    /\ UNCHANGED <<parser, fieldVars, coreVars, tripVars>>

NextLookup == \E name \in TagNames : ResolveElement(name)

SpecLookup == InitLookup /\ [][NextLookup]_vars

(***************************************************************************)
(* Claims about the lookups.                                               *)
(***************************************************************************)
\* The catalog of the schema version a lookup object stands for.
CatalogOf(ecospold_lookup) ==
    IF ecospold_lookup = "EcospoldLookupV1" THEN lookupmapV1 ELSE lookupmapV2

ModuleOf(ecospold_lookup) ==
    IF ecospold_lookup = "EcospoldLookupV1" THEN "model_v1" ELSE "model_v2"

\* C1: every element resolved by a version's lookup got exactly the class the
\* version's catalog maps its tag to when the tag is a key of the catalog, and the
\* fallback sentinel None when it is not; the lookup raised in neither case.
C1_LookupMatchesCatalog ==
    \A i \in 1..Len(resolved) :
        LET e == resolved[i]
            catalog == CatalogOf(parser)
        IN  /\ ~e.out.raised
            /\ e.name \in DOMAIN catalog => e.out.value = catalog[e.name]
            /\ e.name \notin DOMAIN catalog => e.out.value = None

\* C1 witness: one parse resolved a tag of its catalog and a tag outside it.
C1_Witness ==
    /\ \E i \in 1..Len(resolved) : resolved[i].name \in DOMAIN CatalogOf(parser)
    /\ \E i \in 1..Len(resolved) : resolved[i].name \notin DOMAIN CatalogOf(parser)

\* C4: the catalogs never cross-resolve: whatever the tag, a version's lookup
\* returns None or a class of that version's own model module, never a class of the
\* other version's; a tag of the other catalog alone resolves to None.
C4_NoCrossResolve ==
    \A i \in 1..Len(resolved) :
        LET e == resolved[i]
        IN  /\ ~e.out.raised
            /\ e.out.value = None \/ e.out.value.module = ModuleOf(parser)
            /\ e.name \notin DOMAIN CatalogOf(parser) => e.out.value = None

\* C4 witness: the V1 lookup resolved activityDataset (a V2-only tag) and geography
\* (a tag of both catalogs).
C4_Witness ==
    /\ parser = "EcospoldLookupV1"
    /\ \E i \in 1..Len(resolved) : resolved[i].name = "activityDataset"
    /\ \E i \in 1..Len(resolved) :
          /\ resolved[i].name = "geography"
          /\ resolved[i].out.value = Cls("model_v1", "Geography")

(***************************************************************************)
(* The callers of core.py: a directory of files and the calls made on it.  *)
(***************************************************************************)
ReferenceFunctionEl ==
    Element("referenceFunction", [NoAttrib EXCEPT !["amount"] = Stored(<<"1">>)], <<>>)

ProcessInformationEl == Element("processInformation", NoAttrib, <<Elem(ReferenceFunctionEl)>>)

\* A document of each version, and a well-formed one that violates both schemas.
V1Root ==
    Element("ecoSpold", NoAttrib,
            <<Text(" "),
              Elem(Element("dataset", NoAttrib, <<Elem(ProcessInformationEl)>>)),
              Text(" ")>>)

V2Root ==
    Element("ecoSpold", NoAttrib,
            <<Elem(Element("activityDataset", NoAttrib,
                           <<Elem(Element("activity", NoAttrib, <<Text("abc")>>))>>))>>)

InvalidRoot ==
    Element("ecoSpold", NoAttrib,
            <<Text("abc"), Elem(Element("unknownTag", NoAttrib, <<>>))>>)

Entry(name, kind, file) == [name |-> name, kind |-> kind, file |-> file]

\* The entries a directory is made of. A sub-directory cannot be read as a file.
Entries ==
    { Entry(<<"a", ".", "x", "m", "l">>, "file", XmlFile(V1Root)),
      Entry(<<"b", ".", "X", "M", "L">>, "file", XmlFile(V1Root)),
      Entry(<<"b", ".", "X", "M", "L">>, "file", XmlFile(V2Root)),
      Entry(<<"c", ".", "s", "p", "o", "l", "d">>, "file", XmlFile(V2Root)),
      Entry(<<"c", ".", "s", "p", "o", "l", "d">>, "file", XmlFile(InvalidRoot)),
      Entry(<<"d", ".", "t", "x", "t">>, "file", GarbageFile),
      Entry(<<".", "x", "m", "l">>, "file", XmlFile(V1Root)),
      Entry(<<"e", ".", "x", "m", "l">>, "dir", MissingFile) }

Directories ==
    UNION { { d \in [1..n -> Entries] : \A i, j \in 1..n : i # j => d[i].name # d[j].name }
            : n \in 0..MaxEntries }

\* The valid_suffixes arguments callers pass.
SuffixArgs ==
    { NoneArg,
      List(<< <<".", "x", "m", "l">> >>),
      List(<< <<".", "X", "M", "L">> >>),
      List(<< <<".", "t", "x", "t">>, <<".", "S", "P", "O", "L", "D">> >>) }

\* The files a caller may name: those of the directory, and a path that is not there.
Targets == {dir[i].file : i \in DOMAIN dir} \cup {MissingFile}

InitCore ==
    /\ dir \in Directories
    /\ ret = NoCall
    /\ IdleLookup
    /\ IdleField
    /\ IdleTrip

FileCall(op, file, schema_path, ecospold_lookup, out) ==
    [ op |-> op, file |-> file, schema_path |-> schema_path,
      ecospold_lookup |-> ecospold_lookup, out |-> out ]

DirCall(op, schema_path, ecospold_lookup, valid_suffixes, out) ==
    [ op |-> op, schema_path |-> schema_path, ecospold_lookup |-> ecospold_lookup,
      valid_suffixes |-> valid_suffixes, out |-> out ]

Others == <<lookupVars, fieldVars, tripVars>>

ParseFileV1(file) ==
    /\ ret' = FileCall("parse_file_v1", file, SCHEMA_V1_FILE, "EcospoldLookupV1",
                       parse_file_v1(file))
    /\ UNCHANGED <<dir, Others>>

ParseFileV2(file) ==
    /\ ret' = FileCall("parse_file_v2", file, SCHEMA_V2_FILE, "EcospoldLookupV2",
                       parse_file_v2(file))
    /\ UNCHANGED <<dir, Others>>

ParseFile(file, schema_path, ecospold_lookup) ==
    /\ ret' = FileCall("parse_file", file, schema_path, ecospold_lookup,
                       parse_file(file, schema_path, ecospold_lookup))
    /\ UNCHANGED <<dir, Others>>

ValidateFileV1(file) ==
    /\ ret' = FileCall("validate_file_v1", file, SCHEMA_V1_FILE, "none",
                       validate_file_v1(file))
    /\ UNCHANGED <<dir, Others>>

ValidateFileV2(file) ==
    /\ ret' = FileCall("validate_file_v2", file, SCHEMA_V2_FILE, "none",
                       validate_file_v2(file))
    /\ UNCHANGED <<dir, Others>>

ValidateFile(file, schema_path) ==
    /\ ret' = FileCall("validate_file", file, schema_path, "none",
                       validate_file(file, schema_path))
    /\ UNCHANGED <<dir, Others>>

ParseDirectoryV1(valid_suffixes) ==
    /\ ret' = DirCall("parse_directory_v1", SCHEMA_V1_FILE, "EcospoldLookupV1",
                      valid_suffixes, parse_directory_v1(dir, valid_suffixes))
    /\ UNCHANGED <<dir, Others>>

ParseDirectoryV2(valid_suffixes) ==
    /\ ret' = DirCall("parse_directory_v2", SCHEMA_V2_FILE, "EcospoldLookupV2",
                      valid_suffixes, parse_directory_v2(dir, valid_suffixes))
    /\ UNCHANGED <<dir, Others>>

ParseDirectory(schema_path, ecospold_lookup, valid_suffixes) ==
    /\ ret' = DirCall("parse_directory", schema_path, ecospold_lookup, valid_suffixes,
                      parse_directory(dir, schema_path, ecospold_lookup, valid_suffixes))
    /\ UNCHANGED <<dir, Others>>

Next ==
    \/ \E file \in Targets : ParseFileV1(file)
    \/ \E file \in Targets : ParseFileV2(file)
    \/ \E file \in Targets, schema_path \in Schemas, ecospold_lookup \in Lookups :
            ParseFile(file, schema_path, ecospold_lookup)
    \/ \E file \in Targets : ValidateFileV1(file)
    \/ \E file \in Targets : ValidateFileV2(file)
    \/ \E file \in Targets, schema_path \in Schemas : ValidateFile(file, schema_path)
    \/ \E valid_suffixes \in SuffixArgs : ParseDirectoryV1(valid_suffixes)
    \/ \E valid_suffixes \in SuffixArgs : ParseDirectoryV2(valid_suffixes)
    \/ \E schema_path \in Schemas, ecospold_lookup \in Lookups, valid_suffixes \in SuffixArgs :
            ParseDirectory(schema_path, ecospold_lookup, valid_suffixes)

Spec == InitCore /\ [][Next]_vars

(***************************************************************************)
(* Claims about parsing, validating and directories.                       *)
(***************************************************************************)
SchemaVersion(schema_path) == IF schema_path = SCHEMA_V1_FILE THEN "V1" ELSE "V2"

LookupVersion(ecospold_lookup) == IF ecospold_lookup = "EcospoldLookupV1" THEN "V1" ELSE "V2"

SameVersion(calls) ==
    \A c \in calls : SchemaVersion(c.schema_path) = LookupVersion(c.ecospold_lookup)

VersionedParseOps ==
    {"parse_file_v1", "parse_file_v2", "parse_directory_v1", "parse_directory_v2"}

DirOps == {"parse_directory", "parse_directory_v1", "parse_directory_v2"}

ValidateOps == {"validate_file", "validate_file_v1", "validate_file_v2"}

MatchesIgnoringCase(entry, allow) ==
    /\ entry.kind = "file"
    /\ \E k \in DOMAIN allow : Lower(PathSuffix(entry.name)) = Lower(allow[k])

\* C6: a parse_directory call that returns has parsed exactly the directory's regular
\* files whose suffix equals some entry of the allow-list ignoring case, in
\* enumeration order: N such files give N (path, root) entries.
C6_SelectsIgnoringCase ==
    (ret.op \in DirOps /\ ~ret.out.raised) =>
        LET allow == AllowList(ret.valid_suffixes)
            Match(entry) == MatchesIgnoringCase(entry, allow)
            expected == SelectSeq(dir, Match)
        IN  /\ Len(ret.out.value) = Len(expected)
            /\ \A k \in DOMAIN expected : ret.out.value[k].path = expected[k].name

\* The selected entries of the directory on which parse_file fails, for the latest
\* parse_directory call.
FailingEntries ==
    { i \in DOMAIN dir :
        /\ Selected(dir[i], AllowList(ret.valid_suffixes))
        /\ parse_file(dir[i].file, ret.schema_path, ret.ecospold_lookup).raised }

\* C7: when parse_file fails on a selected file, the parse_directory call raises that
\* file's error (the first such file's, in enumeration order) and returns nothing,
\* whatever was parsed before it.
C7_NoPartialSuccess ==
    (ret.op \in DirOps /\ FailingEntries # {}) =>
        LET i == CHOOSE i \in FailingEntries : \A j \in FailingEntries : i <= j
        IN  /\ ret.out.raised
            /\ "value" \notin DOMAIN ret.out
            /\ ret.out.error =
                   parse_file(dir[i].file, ret.schema_path, ret.ecospold_lookup).error

\* C7 witness: a call raised on its second selected file after parsing the first.
C7_Witness ==
    /\ ret.op \in DirOps
    /\ ret.out.raised
    /\ \E i, j \in DOMAIN dir :
          /\ i < j
          /\ j \in FailingEntries
          /\ i \notin FailingEntries
          /\ Selected(dir[i], AllowList(ret.valid_suffixes))

Leaves ==
    { ReferenceFunctionEl,
      ProcessInformationEl,
      Element("exchange", NoAttrib, <<Text("abc")>>),
      Element("unknownTag", NoAttrib, <<Text(" ")>>) }

Items == {Text(" "), Text("abc")} \cup {Elem(l) : l \in Leaves}

\* Content as a parser meets it: no two runs of character data side by side.
Contents ==
    UNION { { c \in [1..n -> Items] :
                \A k \in 1..(n - 1) : ~(c[k].kind = "text" /\ c[k + 1].kind = "text") }
            : n \in 0..MaxContent }

SourceRoots ==
    { Element("ecoSpold", NoAttrib, pad \o <<Elem(Element(tag, NoAttrib, c))>> \o pad)
        : tag \in {"dataset", "activityDataset"}, pad \in {<<>>, <<Text(" ")>>}, c \in Contents }

InitTrip ==
    /\ source \in {XmlFile(r) : r \in SourceRoots}
    /\ held = Nothing
    /\ first = Nothing
    /\ saved = Nothing
    /\ dir = <<>>
    /\ ret = NoCall
    /\ IdleLookup
    /\ IdleField

ParseSource(schema_path, ecospold_lookup) ==
    LET out == parse_file(source, schema_path, ecospold_lookup)
    IN  /\ ret' = FileCall("parse_file", source, schema_path, ecospold_lookup, out)
        /\ held' = IF out.raised THEN Nothing ELSE Some(out.value)
        /\ first' = held'
        /\ saved' = Nothing
        /\ UNCHANGED <<source, dir, lookupVars, fieldVars>>

SaveHeld ==
    /\ held.some
    /\ LET r == save_file(held.v, "out.xml")
       IN  /\ held' = Some(r.root)
           /\ saved' = Some(r.file)
           /\ ret' = [ op |-> "save_file", path |-> r.path,
                       schema_path |-> ret.schema_path,
                       ecospold_lookup |-> ret.ecospold_lookup,
                       out |-> Ok(None, {}) ]
    /\ UNCHANGED <<source, first, dir, lookupVars, fieldVars>>

ParseSaved ==
    /\ saved.some
    /\ ret' = FileCall("parse_file", saved.v, ret.schema_path, ret.ecospold_lookup,
                       parse_file(saved.v, ret.schema_path, ret.ecospold_lookup))
    /\ UNCHANGED <<source, held, first, saved, dir, lookupVars, fieldVars>>

NextTrip ==
    \/ \E schema_path \in Schemas, ecospold_lookup \in Lookups :
            ParseSource(schema_path, ecospold_lookup)
    \/ SaveHeld
    \/ ParseSaved

SpecRoundTrip == InitTrip /\ [][NextTrip]_vars

(***************************************************************************)
(* Claims about save_file and the round trip.                              *)
(***************************************************************************)
IsIndent(item) ==
    item.kind = "text" /\ \E k \in DOMAIN IndentText : IndentText[k] = item.text

\* A tree without its classes: tag, attributes, text and children in order.
RECURSIVE Untyped(_)
Untyped(el) ==
    Element(el.tag, el.attrib,
            [k \in DOMAIN el.content |->
                IF el.content[k].kind = "elem"
                THEN Elem(Untyped(el.content[k].elem))
                ELSE el.content[k]])

\* A written element without the indentation between its tags.
RECURSIVE Unindented(_)
Unindented(el) ==
    LET NotIndent(item) == ~IsIndent(item)
        kept == SelectSeq(el.content, NotIndent)
    IN  Element(el.tag, el.attrib,
                [k \in DOMAIN kept |->
                    IF kept[k].kind = "elem" THEN Elem(Unindented(kept[k].elem)) ELSE kept[k]])

\* C9: after save_file the tree is as parse_file returned it (tag, class, attributes,
\* raw text and child order at every node), and the file holds those nodes in that
\* order with their attributes and text as stored, indentation aside.
C9_SaveLeavesTree ==
    saved.some =>
        /\ held = first
        /\ Unindented(saved.v.root) = Untyped(first.v)

\* C9 witness: a tree with the raw attribute text "1", a blank text and mixed content
\* was saved, and the file has indentation the tree has not.
C9_Witness ==
    /\ saved.some
    /\ saved.v.root # Untyped(held.v)
    /\ \E k \in DOMAIN held.v.content :
          /\ held.v.content[k].kind = "elem"
          /\ LET c == held.v.content[k].elem.content
             IN  /\ \E j \in DOMAIN c : c[j] = Text("abc")
                 /\ \E j \in DOMAIN c : c[j] = Text(" ")
                 /\ \E j \in DOMAIN c :
                       c[j].kind = "elem" /\ c[j].elem.attrib["amount"] = Stored(<<"1">>)

\* C10: parsing the saved file with the schema and lookup of the first parse
\* succeeds and gives a tree equal to the first at every node.
C10_RoundTrip ==
    (ret.op = "parse_file" /\ saved.some) =>
        /\ ret.file = saved.v
        /\ ~ret.out.raised
        /\ ret.out.value = first.v

\* C10 witness: a document with whitespace between its elements was parsed, saved
\* with other whitespace, and parsed again into the same tree.
C10_Witness ==
    /\ ret.op = "parse_file"
    /\ saved.some
    /\ ret.out.value = first.v
    /\ source.root.content[1] = Text(" ")
    /\ saved.v.root # source.root
    /\ Untyped(first.v) # source.root

====
